---- MODULE Spec2Model ----
(***************************************************************************)
(* A model of RollingStatistics (src/src/rolling_statistics.hpp): the      *)
(* rolling-window engines (Mean, Variance, Skewness, ZScore, Max, Min,     *)
(* Rank, OrderStatistics) and the in-place array traversal roll_ndarray.   *)
(*                                                                         *)
(* Values of the element type D are modelled as fractions <<n, d>> with     *)
(* d > 0 in lowest terms; <<0, 0>> is NaN.  Every arithmetic operation      *)
(* rounds its result to the nearest value with a mantissa of MantissaBits  *)
(* bits, ties to even, as IEEE 754 does; the exponent is not bounded.      *)
(***************************************************************************)
EXTENDS Integers, Sequences, FiniteSets, TLC

(***************************************************************************)
(* Bounds of the model.                                                    *)
(***************************************************************************)
\* longest sequence of push() since the last clear()
MaxPush == 3
\* pushed values are NaN and the integers -MaxAbs .. MaxAbs
MaxAbs == 1
\* bits of the mantissa of D (24 for float, 53 for double)
MantissaBits == 6

(***************************************************************************)
(* The element type D.                                                     *)
(***************************************************************************)
NaN == <<0, 0>>

isnan(x) == x[2] = 0 /\ x[1] = 0

Abs(i) == IF i < 0 THEN -i ELSE i

RECURSIVE GCD(_, _)
GCD(a, b) == IF b = 0 THEN a ELSE GCD(b, a % b)

\* the fraction n/d, d # 0, in lowest terms with a positive denominator
Frac(n, d) ==
    LET g == GCD(Abs(n), Abs(d))
        s == IF d < 0 THEN -1 ELSE 1
    IN  <<(s * n) \div g, (s * d) \div g>>

\* static_cast<D>(i)
D(i) == <<i, 1>>

RECURSIVE Pow2(_)
Pow2(k) == IF k = 0 THEN 1 ELSE 2 * Pow2(k - 1)

\* a/d, 0 < a, 0 < d, to the nearest integer, a tie to the even one
NearestEven(a, d) ==
    LET f == a \div d
        r == a % d
    IN  IF 2 * r > d \/ (2 * r = d /\ f % 2 = 1) THEN f + 1 ELSE f

\* the mantissas lie in MantissaLow .. MantissaHigh - 1
MantissaLow == Pow2(MantissaBits - 1)

MantissaHigh == Pow2(MantissaBits)

\* a/d, 0 < a, 0 < d, to the nearest up * q / down with q of MantissaBits
\* bits: a/d is scaled by powers of two into [MantissaLow, MantissaHigh)
\* and rounded there
RECURSIVE RoundScaled(_, _, _, _)
RoundScaled(a, d, up, down) ==
    IF a >= MantissaHigh * d THEN RoundScaled(a, 2 * d, 2 * up, down)
    ELSE IF a < MantissaLow * d THEN RoundScaled(2 * a, d, up, 2 * down)
    ELSE Frac(NearestEven(a, d) * up, down)

\* the value of D nearest to the fraction n/d, d # 0: an integer below
\* MantissaHigh is a value of D
Round(n, d) ==
    IF n = 0 THEN D(0)
    ELSE IF d = 1 /\ Abs(n) < MantissaHigh THEN <<n, 1>>
    ELSE LET r == RoundScaled(Abs(n), Abs(d), 1, 1)
         IN  IF (n < 0) = (d < 0) THEN r ELSE <<-r[1], r[2]>>

\* x + y, x - y, x * y of D: NaN when an operand is NaN
Add(x, y) ==
    IF isnan(x) \/ isnan(y) THEN NaN
    ELSE IF x[2] = 0 \/ y[2] = 0
         THEN Frac(x[1] * y[2] + y[1] * x[2], x[2] * y[2])
    ELSE Round(x[1] * y[2] + y[1] * x[2], x[2] * y[2])

Sub(x, y) ==
    IF isnan(x) \/ isnan(y) THEN NaN
    ELSE IF x[2] = 0 \/ y[2] = 0
         THEN Frac(x[1] * y[2] - y[1] * x[2], x[2] * y[2])
    ELSE Round(x[1] * y[2] - y[1] * x[2], x[2] * y[2])

Mul(x, y) ==
    IF isnan(x) \/ isnan(y) THEN NaN
    ELSE IF x[2] = 0 \/ y[2] = 0 THEN Frac(x[1] * y[1], x[2] * y[2])
    ELSE Round(x[1] * y[1], x[2] * y[2])

\* x / y of D: NaN when an operand is NaN or for 0/0, an infinity
\* <<+-1, 0>> for a non-zero x over zero
Div(x, y) ==
    IF isnan(x) \/ isnan(y) THEN NaN
    ELSE IF y[1] = 0
         THEN <<IF x[1] > 0 THEN 1 ELSE IF x[1] < 0 THEN -1 ELSE 0, 0>>
         ELSE IF x[2] = 0 \/ y[2] = 0 THEN Frac(x[1] * y[2], x[2] * y[1])
         ELSE Round(x[1] * y[2], x[2] * y[1])

\* x < y, x > y, x == y of D: false when an operand is NaN
Lt(x, y) == ~isnan(x) /\ ~isnan(y) /\ x[1] * y[2] < y[1] * x[2]

Gt(x, y) == Lt(y, x)

Eq(x, y) == ~isnan(x) /\ ~isnan(y) /\ x[1] * y[2] = y[1] * x[2]

\* std::less_equal<D>, the comparison of the order-statistics tree
Le(x, y) == ~isnan(x) /\ ~isnan(y) /\ x[1] * y[2] <= y[1] * x[2]

(***************************************************************************)
(* The engines.  One record holds the members of every class; a class      *)
(* reads and writes only its own.  `aborted` is set by a failed assert():  *)
(* the process is gone, and no operation follows.                          *)
(***************************************************************************)
MomentKinds == {"Mean", "Variance", "Skewness", "ZScore"}

Kinds == MomentKinds \cup {"Max", "Min", "Rank", "OrderStatistics"}

\* the num_moments_ each constructor passes to RollingMomentStatistics
NumMoments(kind) ==
    CASE kind = "Mean" -> 1
      [] kind = "Variance" -> 2
      [] kind = "Skewness" -> 3
      [] kind = "ZScore" -> 3
      [] OTHER -> 0

\* size_t: --x at 0 wraps around to the largest value, written -1 here
Dec(x) == x - 1

size_nan(e) == e.num_vals_nan

size_notnan(e) == e.num_vals_notnan

size(e) == e.num_vals_nan + e.num_vals_notnan

\* RollingMomentStatistics::clear
RollingMomentStatistics_clear(e) ==
    [e EXCEPT !.unnormalized_moments = [i \in 1..e.num_moments |-> D(0)],
              !.vecs_in_window = [i \in 1..e.num_moments |-> <<>>],
              !.num_vals_nan = 0,
              !.num_vals_notnan = 0]

\* push_aux, were every moment to count the value
push_aux_counting_each_moment(e, val, index) ==
    LET e1 == [e EXCEPT !.vecs_in_window[index + 1] = Append(@, val)]
    IN  IF ~isnan(val)
        THEN [e1 EXCEPT !.unnormalized_moments[index + 1] = Add(@, val),
                        !.num_vals_notnan = @ + 1]
        ELSE [e1 EXCEPT !.num_vals_nan = @ + 1]

\* RollingMomentStatistics::push_aux; index counts from 0 as in the source
push_aux(e, val, index) ==
    LET e1 == [e EXCEPT !.vecs_in_window[index + 1] = Append(@, val)]
    IN  IF ~isnan(val)
        THEN [e1 EXCEPT !.unnormalized_moments[index + 1] = Add(@, val),
                        !.num_vals_notnan = IF index = 0 THEN @ + 1 ELSE @]
        ELSE [e1 EXCEPT !.num_vals_nan = IF index = 0 THEN @ + 1 ELSE @]

\* pop_aux, were the counters decremented before the queue is looked at
pop_aux_counting_first(e, index) ==
    IF e.aborted THEN e
    ELSE IF e.vecs_in_window[index + 1] = <<>>
    THEN [e EXCEPT !.num_vals_nan = Dec(@), !.aborted = TRUE]
    ELSE LET val == Head(e.vecs_in_window[index + 1])
             e1 == IF ~isnan(val)
                   THEN [e EXCEPT
                           !.unnormalized_moments[index + 1] = Sub(@, val),
                           !.num_vals_notnan =
                               IF index = 0 THEN Dec(@) ELSE @]
                   ELSE [e EXCEPT !.num_vals_nan =
                                      IF index = 0 THEN Dec(@) ELSE @]
         IN  [e1 EXCEPT !.vecs_in_window[index + 1] = Tail(@)]

\* RollingMomentStatistics::pop_aux
pop_aux(e, index) ==
    IF e.aborted THEN e
    ELSE IF e.vecs_in_window[index + 1] = <<>>
    THEN [e EXCEPT !.aborted = TRUE]
    ELSE LET val == Head(e.vecs_in_window[index + 1])
             e1 == IF ~isnan(val)
                   THEN [e EXCEPT
                           !.unnormalized_moments[index + 1] = Sub(@, val),
                                  !.num_vals_notnan =
                                      IF index = 0 THEN Dec(@) ELSE @]
                   ELSE [e EXCEPT !.num_vals_nan =
                                      IF index = 0 THEN Dec(@) ELSE @]
         IN  [e1 EXCEPT !.vecs_in_window[index + 1] = Tail(@)]

\* the loop of RollingMomentStatistics::pop, from `index` on
RECURSIVE pop_from(_, _)
pop_from(e, index) ==
    IF index = e.num_moments THEN e
    ELSE pop_from(pop_aux(e, index), index + 1)

\* RollingMomentStatistics::pop
RollingMomentStatistics_pop(e) == pop_from(e, 0)

\* RollingMomentStatistics::front
RollingMomentStatistics_front(e) == Head(e.vecs_in_window[1])

RollingMean_push(e, val) == push_aux(e, val, 0)

\* RollingVariance::push, were the value pushed to the second moment too
RollingVariance_push_unsquared(e, val) ==
    push_aux(push_aux(e, val, 0), val, 1)

RollingVariance_push(e, val) ==
    push_aux(push_aux(e, val, 0), Mul(val, val), 1)

RollingSkewness_push(e, val) ==
    push_aux(push_aux(push_aux(e, val, 0), Mul(val, val), 1),
             Mul(Mul(val, val), val), 2)

RollingZScore_push(e, val) ==
    LET e1 == push_aux(e, val, 0)
        e2 == IF Len(e1.vecs_in_window[2]) >= 1 THEN pop_aux(e1, 1) ELSE e1
    IN  push_aux(push_aux(e2, val, 1), Mul(val, val), 2)

RollingZScore_pop(e) == pop_aux(pop_aux(e, 0), 2)

(***************************************************************************)
(* RollingMax and RollingMin: the raw FIFO vals_in_window and the deque of *)
(* candidates.                                                             *)
(***************************************************************************)
Back(q) == q[Len(q)]

PopBack(q) == SubSeq(q, 1, Len(q) - 1)

\* the loop of RollingMax::push, were it to evict no candidate
PopBackNever(q, val) == q

\* while (!maximums.empty() && maximums.back() < val) maximums.pop_back();
RECURSIVE PopBackWhileLess(_, _)
PopBackWhileLess(q, val) ==
    IF q # <<>> /\ Lt(Back(q), val) THEN PopBackWhileLess(PopBack(q), val)
    ELSE q

\* while (!minimums.empty() && minimums.back() > val) minimums.pop_back();
RECURSIVE PopBackWhileGreater(_, _)
PopBackWhileGreater(q, val) ==
    IF q # <<>> /\ Gt(Back(q), val) THEN PopBackWhileGreater(PopBack(q), val)
    ELSE q

\* RollingMax::clear, were the deque of candidates left as it is
RollingMax_clear_keeping_candidates(e) ==
    [e EXCEPT !.vals_in_window = <<>>,
              !.num_vals_nan = 0,
              !.num_vals_notnan = 0]

\* RollingMax::clear
RollingMax_clear(e) ==
    [e EXCEPT !.vals_in_window = <<>>,
              !.maximums = <<>>,
              !.num_vals_nan = 0,
              !.num_vals_notnan = 0]

\* RollingMax::push
RollingMax_push(e, val) ==
    LET e1 == [e EXCEPT !.vals_in_window = Append(@, val)]
    IN  IF isnan(val)
        THEN [e1 EXCEPT !.num_vals_nan = @ + 1]
        ELSE [e1 EXCEPT !.maximums = Append(PopBackWhileLess(@, val), val),
                        !.num_vals_notnan = @ + 1]

\* RollingMax::pop, were the head candidate dropped with every value
RollingMax_pop_always_evicting(e) ==
    IF e.aborted THEN e
    ELSE IF e.vals_in_window = <<>>
    THEN [e EXCEPT !.aborted = TRUE]
    ELSE LET val == Head(e.vals_in_window)
             e1 == [e EXCEPT !.vals_in_window = Tail(@)]
         IN  IF isnan(val)
             THEN [e1 EXCEPT !.num_vals_nan = Dec(@)]
             ELSE [e1 EXCEPT !.maximums = IF @ # <<>> THEN Tail(@) ELSE @,
                             !.num_vals_notnan = Dec(@)]

\* RollingMax::pop; front() asserts that vals_in_window is not empty
RollingMax_pop(e) ==
    IF e.aborted THEN e
    ELSE IF e.vals_in_window = <<>>
    THEN [e EXCEPT !.aborted = TRUE]
    ELSE LET val == Head(e.vals_in_window)
             e1 == [e EXCEPT !.vals_in_window = Tail(@)]
         IN  IF isnan(val)
             THEN [e1 EXCEPT !.num_vals_nan = Dec(@)]
             ELSE [e1 EXCEPT !.maximums =
                                 IF @ # <<>> /\ Eq(val, Head(@))
                                 THEN Tail(@) ELSE @,
                             !.num_vals_notnan = Dec(@)]

\* RollingMin::clear
RollingMin_clear(e) ==
    [e EXCEPT !.vals_in_window = <<>>,
              !.minimums = <<>>,
              !.num_vals_nan = 0,
              !.num_vals_notnan = 0]

\* RollingMin::push, were NaN taken for a candidate like any value
RollingMin_push_nan_as_candidate(e, val) ==
    LET e1 == [e EXCEPT !.vals_in_window = Append(@, val)]
    IN  IF isnan(val)
        THEN [e1 EXCEPT !.minimums = Append(PopBackWhileGreater(@, val), val),
                        !.num_vals_nan = @ + 1]
        ELSE [e1 EXCEPT !.minimums = Append(PopBackWhileGreater(@, val), val),
                        !.num_vals_notnan = @ + 1]

\* RollingMin::push
RollingMin_push(e, val) ==
    LET e1 == [e EXCEPT !.vals_in_window = Append(@, val)]
    IN  IF isnan(val)
        THEN [e1 EXCEPT !.num_vals_nan = @ + 1]
        ELSE [e1 EXCEPT !.minimums = Append(PopBackWhileGreater(@, val), val),
                        !.num_vals_notnan = @ + 1]

\* RollingMin::pop
RollingMin_pop(e) ==
    IF e.aborted THEN e
    ELSE IF e.vals_in_window = <<>>
    THEN [e EXCEPT !.aborted = TRUE]
    ELSE LET val == Head(e.vals_in_window)
             e1 == [e EXCEPT !.vals_in_window = Tail(@)]
         IN  IF isnan(val)
             THEN [e1 EXCEPT !.num_vals_nan = Dec(@)]
             ELSE [e1 EXCEPT !.minimums =
                                 IF @ # <<>> /\ Eq(val, Head(@))
                                 THEN Tail(@) ELSE @,
                             !.num_vals_notnan = Dec(@)]

(***************************************************************************)
(* order_statistics_tree<D>: the red-black tree of __gnu_pbds with         *)
(* std::less_equal as its comparison.  A node is <<red, left, val, right>>,*)
(* the empty tree is <<>>.                                                 *)
(***************************************************************************)
Nil == <<>>

Node(red, l, v, r) == <<red, l, v, r>>

IsRed(t) == t # Nil /\ t[1]

Left(t) == t[2]

Val(t) == t[3]

Right(t) == t[4]

Blacken(t) == IF t = Nil THEN Nil ELSE Node(FALSE, Left(t), Val(t), Right(t))

\* the node count the tree keeps as metadata of a subtree
RECURSIVE TreeSize(_)
TreeSize(t) ==
    IF t = Nil THEN 0 ELSE 1 + TreeSize(Left(t)) + TreeSize(Right(t))

\* the values of the tree in iteration order
RECURSIVE InOrder(_)
InOrder(t) ==
    IF t = Nil THEN <<>>
    ELSE InOrder(Left(t)) \o <<Val(t)>> \o InOrder(Right(t))

\* insert_fixup at a grandparent whose left subtree took the new node
InsertFixLeft(g) ==
    LET p == Left(g)
        u == Right(g)
    IN  IF ~(IsRed(p) /\ (IsRed(Left(p)) \/ IsRed(Right(p)))) THEN g
        ELSE IF IsRed(u)
        THEN Node(TRUE, Blacken(p), Val(g), Blacken(u))
        ELSE IF IsRed(Right(p))
        THEN LET x == Right(p)
             IN  Node(FALSE,
                      Node(TRUE, Left(p), Val(p), Left(x)),
                      Val(x),
                      Node(TRUE, Right(x), Val(g), u))
        ELSE Node(FALSE, Left(p), Val(p), Node(TRUE, Right(p), Val(g), u))

\* insert_fixup at a grandparent whose right subtree took the new node
InsertFixRight(g) ==
    LET p == Right(g)
        u == Left(g)
    IN  IF ~(IsRed(p) /\ (IsRed(Left(p)) \/ IsRed(Right(p)))) THEN g
        ELSE IF IsRed(u)
        THEN Node(TRUE, Blacken(u), Val(g), Blacken(p))
        ELSE IF IsRed(Left(p))
        THEN LET x == Left(p)
             IN  Node(FALSE,
                      Node(TRUE, u, Val(g), Left(x)),
                      Val(x),
                      Node(TRUE, Right(x), Val(p), Right(p)))
        ELSE Node(FALSE, Node(TRUE, u, Val(g), Left(p)), Val(p), Right(p))

\* insert_leaf: left of a node that is not <= val, right of the others,
\* so that a value equal to stored ones is stored once more, after them
RECURSIVE InsertLeaf(_, _)
InsertLeaf(t, val) ==
    IF t = Nil THEN Node(TRUE, Nil, val, Nil)
    ELSE IF ~Le(Val(t), val)
    THEN InsertFixLeft(Node(t[1], InsertLeaf(Left(t), val), Val(t), Right(t)))
    ELSE InsertFixRight(Node(t[1], Left(t), Val(t), InsertLeaf(Right(t), val)))

\* insert, were the tree a set: a value it holds is not inserted again
ost_insert_unique(t, val) ==
    IF \E i \in DOMAIN InOrder(t) : InOrder(t)[i] = val THEN t
    ELSE Blacken(InsertLeaf(t, val))

\* ost.insert(val)
ost_insert(t, val) == Blacken(InsertLeaf(t, val))

\* remove_fixup at parent p whose left subtree lost one black node;
\* the result is <<tree, whether it lost one black node in turn>>
RECURSIVE RemoveFixLeft(_)
RemoveFixLeft(p) ==
    LET w == Right(p)
    IN  IF IsRed(w)
        THEN LET sub == RemoveFixLeft(Node(TRUE, Left(p), Val(p), Left(w)))
             IN  <<Node(FALSE, sub[1], Val(w), Right(w)), FALSE>>
        ELSE IF ~IsRed(Left(w)) /\ ~IsRed(Right(w))
        THEN <<Node(FALSE, Left(p), Val(p),
                    Node(TRUE, Left(w), Val(w), Right(w))), ~p[1]>>
        ELSE LET w2 == IF ~IsRed(Right(w))
                       THEN LET wl == Left(w)
                            IN  Node(FALSE, Left(wl), Val(wl),
                                     Node(TRUE, Right(wl), Val(w), Right(w)))
                       ELSE w
             IN  <<Node(p[1],
                        Node(FALSE, Left(p), Val(p), Left(w2)),
                        Val(w2),
                        Blacken(Right(w2))), FALSE>>

\* remove_fixup at parent p whose right subtree lost one black node
RECURSIVE RemoveFixRight(_)
RemoveFixRight(p) ==
    LET w == Left(p)
    IN  IF IsRed(w)
        THEN LET sub == RemoveFixRight(Node(TRUE, Right(w), Val(p), Right(p)))
             IN  <<Node(FALSE, Left(w), Val(w), sub[1]), FALSE>>
        ELSE IF ~IsRed(Right(w)) /\ ~IsRed(Left(w))
        THEN <<Node(FALSE, Node(TRUE, Left(w), Val(w), Right(w)),
                    Val(p), Right(p)), ~p[1]>>
        ELSE LET w2 == IF ~IsRed(Left(w))
                       THEN LET wr == Right(w)
                            IN  Node(FALSE,
                                     Node(TRUE, Left(w), Val(w), Left(wr)),
                                     Val(wr), Right(wr))
                       ELSE w
             IN  <<Node(p[1],
                        Blacken(Left(w2)),
                        Val(w2),
                        Node(FALSE, Right(w2), Val(p), Right(p))), FALSE>>

\* a node with at most one child x is unlinked and x takes its place
Unlink(z, x) ==
    IF z[1] THEN <<x, FALSE>>
    ELSE IF IsRed(x) THEN <<Blacken(x), FALSE>>
    ELSE <<x, TRUE>>

\* remove_node of the leftmost node of t: <<tree, lost a black node, value>>
RECURSIVE RemoveMin(_)
RemoveMin(t) ==
    IF Left(t) = Nil
    THEN LET u == Unlink(t, Right(t)) IN <<u[1], u[2], Val(t)>>
    ELSE LET sub == RemoveMin(Left(t))
             t1 == Node(t[1], sub[1], Val(t), Right(t))
             f == IF sub[2] THEN RemoveFixLeft(t1) ELSE <<t1, FALSE>>
         IN  <<f[1], f[2], sub[3]>>

\* remove_node of the node at position i (from 0) of the iteration order
RECURSIVE RemoveAt(_, _)
RemoveAt(t, i) ==
    LET n == TreeSize(Left(t))
    IN  IF i < n
        THEN LET sub == RemoveAt(Left(t), i)
                 t1 == Node(t[1], sub[1], Val(t), Right(t))
             IN  IF sub[2] THEN RemoveFixLeft(t1) ELSE <<t1, FALSE>>
        ELSE IF i > n
        THEN LET sub == RemoveAt(Right(t), i - n - 1)
                 t1 == Node(t[1], Left(t), Val(t), sub[1])
             IN  IF sub[2] THEN RemoveFixRight(t1) ELSE <<t1, FALSE>>
        ELSE IF Left(t) = Nil THEN Unlink(t, Right(t))
        ELSE IF Right(t) = Nil THEN Unlink(t, Left(t))
        ELSE LET sub == RemoveMin(Right(t))
                 t1 == Node(t[1], Left(t), sub[3], sub[1])
             IN  IF sub[2] THEN RemoveFixRight(t1) ELSE <<t1, FALSE>>

\* the position upper_bound(val) points at: the first node with val <= node
\* (the node count when there is none: end())
RECURSIVE upper_bound(_, _)
upper_bound(t, val) ==
    IF t = Nil THEN 0
    ELSE IF Le(val, Val(t)) THEN upper_bound(Left(t), val)
    ELSE TreeSize(Left(t)) + 1 + upper_bound(Right(t), val)

\* ost.erase(ost.upper_bound(val)); erase(end()) erases nothing
ost_erase_upper_bound(t, val) ==
    LET i == upper_bound(t, val)
    IN  IF i = TreeSize(t) THEN t ELSE Blacken(RemoveAt(t, i)[1])

\* ost.order_of_key(key)
RECURSIVE order_of_key(_, _)
order_of_key(t, key) ==
    IF t = Nil THEN 0
    ELSE IF Le(key, Val(t)) THEN order_of_key(Left(t), key)
    ELSE IF Le(Val(t), key)
    THEN TreeSize(Left(t)) + 1 + order_of_key(Right(t), key)
    ELSE TreeSize(Left(t))

\* *ost.find_by_order(order), for order < ost.size()
RECURSIVE find_by_order(_, _)
find_by_order(t, order) ==
    LET n == TreeSize(Left(t))
    IN  IF order < n THEN find_by_order(Left(t), order)
        ELSE IF order > n THEN find_by_order(Right(t), order - n - 1)
        ELSE Val(t)

(***************************************************************************)
(* RollingRank and RollingOrderStatistics: the raw deque vals_in_window    *)
(* and the tree ost of the non-NaN values.                                 *)
(***************************************************************************)
\* clear, were `order` set back to its initializer 0.0
RollingRank_clear_resetting_order(e) ==
    [e EXCEPT !.vals_in_window = <<>>,
              !.ost = Nil,
              !.num_vals_nan = 0,
              !.num_vals_notnan = 0,
              !.order = D(0)]

\* RollingRank::clear, RollingOrderStatistics::clear
RollingRank_clear(e) ==
    [e EXCEPT !.vals_in_window = <<>>,
              !.ost = Nil,
              !.num_vals_nan = 0,
              !.num_vals_notnan = 0]

\* RollingRank::push, RollingOrderStatistics::push
RollingRank_push(e, val) ==
    LET e1 == [e EXCEPT !.vals_in_window = Append(@, val)]
    IN  IF isnan(val)
        THEN [e1 EXCEPT !.num_vals_nan = @ + 1]
        ELSE [e1 EXCEPT !.ost = ost_insert(@, val),
                        !.num_vals_notnan = @ + 1]

\* the pop of RollingRank and RollingOrderStatistics with ost.erase(val):
\* under std::less_equal find() fails and nothing is erased
RollingRank_pop_erasing_by_key(e) ==
    IF e.aborted THEN e
    ELSE IF e.vals_in_window = <<>>
    THEN [e EXCEPT !.aborted = TRUE]
    ELSE LET val == Head(e.vals_in_window)
             e1 == [e EXCEPT !.vals_in_window = Tail(@)]
         IN  IF isnan(val)
             THEN [e1 EXCEPT !.num_vals_nan = Dec(@)]
             ELSE [e1 EXCEPT !.num_vals_notnan = Dec(@)]

\* RollingRank::pop, RollingOrderStatistics::pop
RollingRank_pop(e) ==
    IF e.aborted THEN e
    ELSE IF e.vals_in_window = <<>>
    THEN [e EXCEPT !.aborted = TRUE]
    ELSE LET val == Head(e.vals_in_window)
             e1 == [e EXCEPT !.vals_in_window = Tail(@)]
         IN  IF isnan(val)
             THEN [e1 EXCEPT !.num_vals_nan = Dec(@)]
             ELSE [e1 EXCEPT !.ost = ost_erase_upper_bound(@, val),
                             !.num_vals_notnan = Dec(@)]

(***************************************************************************)
(* compute_aux of each class and RollingStatistics::compute.               *)
(***************************************************************************)
\* EPSILON = 1.0e-16: the exponent
EPSILON_EXP == 16

\* n/d < 10^-k, for 0 < d
RECURSIVE BelowPow10(_, _, _)
BelowPow10(n, d, k) ==
    IF n <= 0 THEN TRUE
    ELSE IF n >= d THEN FALSE
    ELSE IF k = 0 THEN TRUE
    ELSE BelowPow10(10 * n, d, k - 1)

\* x_var < EPSILON
BelowEPSILON(x) == ~isnan(x) /\ BelowPow10(x[1], x[2], EPSILON_EXP)

\* num / pow(x_var, 1.5) and num / sqrt(x_var), x_var > 0: the quotient is
\* kept as <<num, x_var, twice the exponent>>, flattened
PowQuot(num, x_var, twice) ==
    IF isnan(num) THEN NaN
    ELSE <<num[1], num[2], x_var[1], x_var[2], twice>>

\* the mean, were it taken over size() and not over size_notnan()
RollingMean_compute_aux_over_size(e) ==
    Div(e.unnormalized_moments[1], D(size(e)))

RollingMean_compute_aux(e) ==
    LET n == D(e.num_vals_notnan)
    IN  Div(e.unnormalized_moments[1], n)

RollingVariance_compute_aux(e) ==
    LET n == D(e.num_vals_notnan)
        x_mean == Div(e.unnormalized_moments[1], n)
    IN  Sub(Div(e.unnormalized_moments[2], n), Mul(x_mean, x_mean))

RollingSkewness_compute_aux(e) ==
    LET n == D(e.num_vals_notnan)
        m == e.unnormalized_moments
        x_mean == Div(m[1], n)
        x_var == Sub(Div(m[2], n), Mul(x_mean, x_mean))
    IN  IF BelowEPSILON(x_var) THEN NaN
        ELSE PowQuot(Add(Sub(Div(m[3], n),
                             Mul(Div(Mul(D(3), m[2]), n), x_mean)),
                         Mul(Mul(Mul(D(2), x_mean), x_mean), x_mean)),
                     x_var, 3)

RollingZScore_compute_aux(e) ==
    LET n == D(e.num_vals_notnan)
        m == e.unnormalized_moments
        x == m[2]
        x_mean == Div(m[1], n)
        x_var == Sub(Div(m[3], n), Mul(x_mean, x_mean))
    IN  IF BelowEPSILON(x_var) THEN NaN
        ELSE PowQuot(Sub(x, x_mean), x_var, 1)

\* the value read where the source reads past a container (front() of an
\* empty deque): it is nothing the program wrote
Indeterminate == <<0, -1>>

RollingMax_compute_aux(e) ==
    IF e.maximums = <<>> THEN Indeterminate ELSE Head(e.maximums)

RollingMin_compute_aux(e) ==
    IF e.minimums = <<>> THEN Indeterminate ELSE Head(e.minimums)

RollingRank_compute_aux(e) ==
    LET val == IF e.vals_in_window = <<>> THEN Indeterminate
               ELSE D(order_of_key(e.ost, Back(e.vals_in_window)))
    IN  IF e.normalize /\ val # Indeterminate
        THEN Div(val, D(e.num_vals_notnan)) ELSE val

\* static_cast<size_t>(x) followed by std::min(limit, .): the fraction is
\* cut off towards zero; for x <= -1 the conversion is undefined and the
\* build decides: it wraps to a huge value (cast_wraps) or gives 0
MinCast(limit, x, cast_wraps) ==
    IF x[1] >= 0
    THEN LET c == x[1] \div x[2] IN IF c < limit THEN c ELSE limit
    ELSE IF -x[1] < x[2] THEN 0
    ELSE IF cast_wraps THEN limit ELSE 0

RollingOrderStatistics_compute_aux(e) ==
    LET n == e.num_vals_notnan
        real_order == MinCast(Dec(n),
                              IF e.normalize THEN Mul(e.order, D(n))
                              ELSE e.order,
                              e.cast_wraps)
    IN  IF real_order < TreeSize(e.ost) THEN find_by_order(e.ost, real_order)
        ELSE Indeterminate

compute_aux(e) ==
    CASE e.kind = "Mean" -> RollingMean_compute_aux(e)
      [] e.kind = "Variance" -> RollingVariance_compute_aux(e)
      [] e.kind = "Skewness" -> RollingSkewness_compute_aux(e)
      [] e.kind = "ZScore" -> RollingZScore_compute_aux(e)
      [] e.kind = "Max" -> RollingMax_compute_aux(e)
      [] e.kind = "Min" -> RollingMin_compute_aux(e)
      [] e.kind = "Rank" -> RollingRank_compute_aux(e)
      [] e.kind = "OrderStatistics" -> RollingOrderStatistics_compute_aux(e)

\* compute, were it to skip NaN whatever skip_nan_ says
compute_always_skipping(e) ==
    IF e.num_vals_notnan = 0 THEN NaN ELSE compute_aux(e)

\* RollingStatistics::compute
compute(e) ==
    IF e.num_vals_notnan = 0 \/ (~e.skip_nan /\ e.num_vals_nan > 0)
    THEN NaN
    ELSE compute_aux(e)

(***************************************************************************)
(* The virtual functions, dispatched on the class of the engine.           *)
(***************************************************************************)
\* clear, were it to leave an engine that holds values as it is
clear_only_when_empty(e) ==
    IF \/ e.vals_in_window # <<>>
       \/ (e.vecs_in_window # <<>> /\ e.vecs_in_window[1] # <<>>)
    THEN e
    ELSE CASE e.kind \in MomentKinds -> RollingMomentStatistics_clear(e)
           [] e.kind = "Max" -> RollingMax_clear(e)
           [] e.kind = "Min" -> RollingMin_clear(e)
           [] OTHER -> RollingRank_clear(e)

clear(e) ==
    CASE e.kind \in MomentKinds -> RollingMomentStatistics_clear(e)
      [] e.kind = "Max" -> RollingMax_clear(e)
      [] e.kind = "Min" -> RollingMin_clear(e)
      [] OTHER -> RollingRank_clear(e)

push(e, val) ==
    CASE e.kind = "Mean" -> RollingMean_push(e, val)
      [] e.kind = "Variance" -> RollingVariance_push(e, val)
      [] e.kind = "Skewness" -> RollingSkewness_push(e, val)
      [] e.kind = "ZScore" -> RollingZScore_push(e, val)
      [] e.kind = "Max" -> RollingMax_push(e, val)
      [] e.kind = "Min" -> RollingMin_push(e, val)
      [] OTHER -> RollingRank_push(e, val)

pop(e) ==
    CASE e.kind = "ZScore" -> RollingZScore_pop(e)
      [] e.kind \in MomentKinds \ {"ZScore"} -> RollingMomentStatistics_pop(e)
      [] e.kind = "Max" -> RollingMax_pop(e)
      [] e.kind = "Min" -> RollingMin_pop(e)
      [] OTHER -> RollingRank_pop(e)

\* the FIFO front() reads: vecs_in_window[0] of the moment engines,
\* vals_in_window of the others
RawWindow(e) ==
    IF e.kind \in MomentKinds THEN e.vecs_in_window[1] ELSE e.vals_in_window

\* front, were it to read the newest value
front_reading_back(e) == RawWindow(e)[Len(RawWindow(e))]

\* front(), for a window that is not empty (its assert)
front(e) == Head(RawWindow(e))

\* the constructors: the members are set and clear() is called
Construct(kind, skip_nan_, normalize_, order_, cast_wraps_) ==
    clear([kind |-> kind,
           skip_nan |-> skip_nan_,
           normalize |-> normalize_,
           order |-> order_,
           cast_wraps |-> cast_wraps_,
           aborted |-> FALSE,
           num_vals_nan |-> 0,
           num_vals_notnan |-> 0,
           num_moments |-> NumMoments(kind),
           unnormalized_moments |-> <<>>,
           vecs_in_window |-> <<>>,
           vals_in_window |-> <<>>,
           maximums |-> <<>>,
           minimums |-> <<>>,
           ost |-> Nil])

(***************************************************************************)
(* The state: one engine and what its caller has done with it, and one     *)
(* call of roll_ndarray.                                                   *)
(***************************************************************************)
VARIABLES
    eng,            \* the engine
    hist,           \* the values pushed since the last clear(), in order
    npop,           \* the number of pop() that returned since the last clear()
    lastOp,         \* the last operation called
    ret,            \* what the last operation returned (NaN when nothing)
    rpc,            \* where the call of roll_ndarray stands
    arr,            \* the buffer ptr_arr points at, cell 0 first
    shape,          \* the arguments of the call
    axis,
    window,
    min_periods,
    strides,        \* the argument, then the local the function works with
    size_arr,       \* the locals of the function
    indices,
    current_axis,
    scalar_index,
    arr0,           \* the buffer as it was when the call was made
    arr02,          \* the second buffer as it was when the call was made
    nclear,         \* the number of clear() the call has made
    lanes,          \* `indices` at the start of each lane, in order
    writes,         \* how often the call has written each cell
    oob,            \* the objects the call has accessed out of their bounds
    eng2,           \* a second engine and a second buffer, rolled by a call
    arr2,           \*   with the same shape, axis, window and min_periods
    strides2,       \* the strides and scalar_index of the second call
    scalar_index2

engVars == <<eng, hist, npop, lastOp, ret>>

\* the variables of a call, the second engine left out
callVars == <<rpc, arr, shape, axis, window, min_periods, strides, size_arr,
              indices, current_axis, scalar_index, arr0, arr02, nclear, lanes,
              writes, oob, arr2, strides2, scalar_index2>>

rollVars == <<callVars, eng2>>

vars == <<engVars, rollVars>>

\* the values a caller pushes
Vals == {NaN} \cup {D(i) : i \in -MaxAbs..MaxAbs}

\* the values of `order` a caller constructs a RollingOrderStatistics with
Orders == {D(-1), D(0), Frac(1, 2), D(1), D(2)}

\* the engines a caller can construct
Engines ==
    {Construct(k, s, FALSE, D(0), TRUE) :
        k \in MomentKinds \cup {"Max", "Min"}, s \in BOOLEAN}
    \cup {Construct("Rank", s, n, D(0), TRUE) : s \in BOOLEAN, n \in BOOLEAN}
    \cup {Construct("OrderStatistics", s, n, o, w) :
            s \in BOOLEAN, n \in BOOLEAN, o \in Orders, w \in {TRUE}}
    \cup {Construct("OrderStatistics", s, n, D(-1), FALSE) :
            s \in BOOLEAN, n \in BOOLEAN}

\* no call of roll_ndarray is made
Idle ==
    /\ rpc = "none"
    /\ arr = <<>>
    /\ shape = <<>>
    /\ axis = 0
    /\ window = 0
    /\ min_periods = 0
    /\ strides = <<>>
    /\ size_arr = 0
    /\ indices = <<>>
    /\ current_axis = 0
    /\ scalar_index = 0
    /\ arr0 = <<>>
    /\ arr02 = <<>>
    /\ nclear = 0
    /\ lanes = <<>>
    /\ writes = <<>>
    /\ oob = {}
    /\ arr2 = <<>>
    /\ strides2 = <<>>
    /\ scalar_index2 = 0

\* no call is made and there is no second engine
NoCall == Idle /\ eng2 = eng

Init ==
    /\ eng \in Engines
    /\ hist = <<>>
    /\ npop = 0
    /\ lastOp = "construct"
    /\ ret = NaN
    /\ NoCall

\* push(val)
Push ==
    /\ ~eng.aborted
    /\ Len(hist) < MaxPush
    /\ \E val \in Vals :
        /\ eng' = push(eng, val)
        /\ hist' = Append(hist, val)
    /\ lastOp' = "push"
    /\ ret' = NaN
    /\ UNCHANGED <<npop, rollVars>>

\* pop(): on an empty window an assert fails
Pop ==
    /\ ~eng.aborted
    /\ eng' = pop(eng)
    /\ npop' = IF eng'.aborted THEN npop ELSE npop + 1
    /\ lastOp' = "pop"
    /\ ret' = NaN
    /\ UNCHANGED <<hist, rollVars>>

\* clear()
Clear ==
    /\ ~eng.aborted
    /\ eng' = clear(eng)
    /\ hist' = <<>>
    /\ npop' = 0
    /\ lastOp' = "clear"
    /\ ret' = NaN
    /\ UNCHANGED rollVars

\* compute(), were it to drop the oldest value it has used
ComputeConsuming ==
    /\ ~eng.aborted
    /\ ret' = compute(eng)
    /\ eng' = IF size(eng) > 0 THEN pop(eng) ELSE eng
    /\ lastOp' = "compute"
    /\ UNCHANGED <<hist, npop, rollVars>>

\* compute()
Compute ==
    /\ ~eng.aborted
    /\ ret' = compute(eng)
    /\ lastOp' = "compute"
    /\ UNCHANGED <<eng, hist, npop, rollVars>>

\* front(): on an empty window its assert fails
Front ==
    /\ ~eng.aborted
    /\ IF RawWindow(eng) = <<>>
       THEN eng' = [eng EXCEPT !.aborted = TRUE] /\ ret' = NaN
       ELSE eng' = eng /\ ret' = front(eng)
    /\ lastOp' = "front"
    /\ UNCHANGED <<hist, npop, rollVars>>

Next == Push \/ Pop \/ Clear \/ Compute \/ Front

Spec == Init /\ [][Next]_vars

(***************************************************************************)
(* Two engines given the same pushes, pops and clears: a                   *)
(* RollingOrderStatistics and a RollingMin or RollingMax.                  *)
(***************************************************************************)
InitTwin ==
    /\ \E s \in BOOLEAN, n \in BOOLEAN, k \in {"Min", "Max"} :
          /\ eng = Construct("OrderStatistics", s, n, D(0), TRUE)
          /\ eng2 = Construct(k, s, FALSE, D(0), TRUE)
    /\ hist = <<>>
    /\ npop = 0
    /\ lastOp = "construct"
    /\ ret = NaN
    /\ Idle

TwinPush ==
    /\ ~eng.aborted
    /\ Len(hist) < MaxPush
    /\ \E val \in Vals :
        /\ eng' = push(eng, val)
        /\ eng2' = push(eng2, val)
        /\ hist' = Append(hist, val)
    /\ lastOp' = "push"
    /\ UNCHANGED <<npop, ret, callVars>>

TwinPop ==
    /\ ~eng.aborted
    /\ eng' = pop(eng)
    /\ eng2' = pop(eng2)
    /\ npop' = IF eng'.aborted THEN npop ELSE npop + 1
    /\ lastOp' = "pop"
    /\ UNCHANGED <<hist, ret, callVars>>

TwinClear ==
    /\ ~eng.aborted
    /\ eng' = clear(eng)
    /\ eng2' = clear(eng2)
    /\ hist' = <<>>
    /\ npop' = 0
    /\ lastOp' = "clear"
    /\ UNCHANGED <<ret, callVars>>

NextTwin == TwinPush \/ TwinPop \/ TwinClear

SpecTwin == InitTwin /\ [][NextTwin]_vars

(***************************************************************************)
(* The Skewness and ZScore engines on values whose squares, cubes and      *)
(* sums are rounded.                                                       *)
(***************************************************************************)
\* NaN and the quarters from 1 to 2
FloatVals == {NaN} \cup {Frac(m, 4) : m \in 4..8}

InitFloat ==
    /\ eng \in {Construct(k, s, FALSE, D(0), TRUE) :
                   k \in {"Skewness", "ZScore"}, s \in BOOLEAN}
    /\ hist = <<>>
    /\ npop = 0
    /\ lastOp = "construct"
    /\ ret = NaN
    /\ NoCall

\* push(val), val a value of FloatVals
PushFloat ==
    /\ ~eng.aborted
    /\ Len(hist) < MaxPush
    /\ \E val \in FloatVals :
        /\ eng' = push(eng, val)
        /\ hist' = Append(hist, val)
    /\ lastOp' = "push"
    /\ ret' = NaN
    /\ UNCHANGED <<npop, rollVars>>

NextFloat == PushFloat \/ Pop \/ Clear \/ Compute

SpecFloat == InitFloat /\ [][NextFloat]_vars

(***************************************************************************)
(* RollingStatistics::roll_ndarray.  The call is taken in steps: its       *)
(* entry, the start of a lane, one iteration of the loop along `axis`, the *)
(* end of a lane, and the loop that carries to the next lane.              *)
(***************************************************************************)
\* the longest walk of the carry loop past the end of `indices`
MaxOob == 1

\* s[k], k counted from 0 as in the source
At(s, k) == s[k + 1]

Put(s, k, v) == [s EXCEPT ![k + 1] = v]

RECURSIVE Product(_)
Product(s) == IF s = <<>> THEN 1 ELSE Head(s) * Product(Tail(s))

\* the default strides, were std::reverse left out
ReverseLeftOut(s) == s

\* std::reverse
Reverse(s) == [i \in 1..Len(s) |-> s[Len(s) + 1 - i]]

\* the loop that fills `strides` when the argument is empty, from i on
RECURSIVE DefaultStridesFrom(_, _, _, _)
DefaultStridesFrom(shape_, i, stride, out) ==
    IF i = Len(shape_) THEN Reverse(out)
    ELSE LET st == IF i > 0 THEN stride * At(shape_, Len(shape_) - i)
                   ELSE stride
         IN  DefaultStridesFrom(shape_, i + 1, st, Append(out, st))

\* the default strides, were every axis given the stride 1
UnitStrides(shape_) == [i \in 1..Len(shape_) |-> 1]

DefaultStrides(shape_) == DefaultStridesFrom(shape_, 0, 1, <<>>)

\* the loop that adds indices[i] * strides[i] to scalar_index, from i on
RECURSIVE ScalarIndexFrom(_, _, _)
ScalarIndexFrom(indices_, strides_, i) ==
    IF i = Len(indices_) THEN 0
    ELSE At(indices_, i) * At(strides_, i)
         + ScalarIndexFrom(indices_, strides_, i + 1)

\* current_axis = (axis == 0 ? 1 : 0)
FirstAxis(axis_) == IF axis_ = 0 THEN 1 ELSE 0

\* the entry of the call, were strides of the wrong length taken as left out
RollEnterDefaulting ==
    /\ rpc = "call"
    /\ rpc' = "lane"
    /\ size_arr' = Product(shape)
    /\ strides' = IF Len(strides) # Len(shape) THEN DefaultStrides(shape)
                  ELSE strides
    /\ strides2' = IF Len(strides2) # Len(shape) THEN DefaultStrides(shape)
                   ELSE strides2
    /\ indices' = [i \in 1..Len(shape) |-> 0]
    /\ current_axis' = IF Len(shape) = 1 THEN 0 ELSE FirstAxis(axis)
    /\ UNCHANGED <<engVars, arr, shape, axis, window, min_periods,
                   scalar_index, arr0, arr02, nclear, lanes, writes, oob,
                   eng2, arr2, scalar_index2>>

\* the entry of the call: the asserts, size_arr, the default strides,
\* indices and current_axis
RollEnter ==
    /\ rpc = "call"
    /\ IF /\ Len(shape) > 0
          /\ strides = <<>> \/ Len(strides) = Len(shape)
          /\ strides2 = <<>> \/ Len(strides2) = Len(shape)
       THEN /\ rpc' = "lane"
            /\ size_arr' = Product(shape)
            /\ strides' = IF strides = <<>> THEN DefaultStrides(shape)
                          ELSE strides
            /\ strides2' = IF strides2 = <<>> THEN DefaultStrides(shape)
                           ELSE strides2
            /\ indices' = [i \in 1..Len(shape) |-> 0]
            /\ current_axis' = IF Len(shape) = 1 THEN 0 ELSE FirstAxis(axis)
       ELSE /\ rpc' = "aborted"
            /\ UNCHANGED <<size_arr, strides, strides2, indices,
                           current_axis>>
    /\ UNCHANGED <<engVars, arr, shape, axis, window, min_periods,
                   scalar_index, arr0, arr02, nclear, lanes, writes, oob,
                   eng2, arr2, scalar_index2>>

\* the head of while (true), were clear() called between the lanes only
RollLaneStartClearingBetween ==
    /\ rpc = "lane"
    /\ eng' = IF nclear = 0 THEN eng ELSE clear(eng)
    /\ eng2' = IF nclear = 0 THEN eng2 ELSE clear(eng2)
    /\ nclear' = nclear + 1
    /\ indices' = Put(indices, axis, 0)
    /\ scalar_index' = ScalarIndexFrom(indices', strides, 0)
    /\ scalar_index2' = ScalarIndexFrom(indices', strides2, 0)
    /\ lanes' = Append(lanes, indices')
    /\ rpc' = IF scalar_index' < size_arr /\ scalar_index2' < size_arr
              THEN "axis" ELSE "aborted"
    /\ UNCHANGED <<hist, npop, lastOp, ret, arr, shape, axis, window,
                   min_periods, strides, size_arr, current_axis, arr0, arr02,
                   writes, oob, arr2, strides2>>

\* the head of while (true): clear(), scalar_index of the lane, its assert
RollLaneStart ==
    /\ rpc = "lane"
    /\ eng' = clear(eng)
    /\ eng2' = clear(eng2)
    /\ nclear' = nclear + 1
    /\ indices' = Put(indices, axis, 0)
    /\ scalar_index' = ScalarIndexFrom(indices', strides, 0)
    /\ scalar_index2' = ScalarIndexFrom(indices', strides2, 0)
    /\ lanes' = Append(lanes, indices')
    /\ rpc' = IF scalar_index' < size_arr /\ scalar_index2' < size_arr
              THEN "axis" ELSE "aborted"
    /\ UNCHANGED <<hist, npop, lastOp, ret, arr, shape, axis, window,
                   min_periods, strides, size_arr, current_axis, arr0, arr02,
                   writes, oob, arr2, strides2>>

\* push(*(ptr_arr + scalar_index)); if (indices[axis] >= window) pop();
RollPushPop(e, val, index, window_) ==
    LET e1 == push(e, val)
    IN  IF index >= window_ THEN pop(e1) ELSE e1

\* what is written to the cell
RollResult(e, min_periods_) ==
    IF size_notnan(e) >= min_periods_ THEN compute(e) ELSE NaN

\* one iteration of the loop along `axis`
RollAxisStep ==
    /\ rpc = "axis"
    /\ At(indices, axis) # At(shape, axis)
    /\ IF scalar_index < Len(arr) /\ scalar_index2 < Len(arr2)
       THEN /\ eng' = RollPushPop(eng, At(arr, scalar_index),
                                  At(indices, axis), window)
            /\ eng2' = RollPushPop(eng2, At(arr2, scalar_index2),
                                   At(indices, axis), window)
            /\ arr' = Put(arr, scalar_index, RollResult(eng', min_periods))
            /\ arr2' = Put(arr2, scalar_index2,
                           RollResult(eng2', min_periods))
            /\ writes' = Put(writes, scalar_index, At(writes, scalar_index) + 1)
            /\ oob' = oob
       ELSE /\ eng' = RollPushPop(eng, Indeterminate,
                                  At(indices, axis), window)
            /\ eng2' = RollPushPop(eng2, Indeterminate,
                                   At(indices, axis), window)
            /\ oob' = oob \cup {"ptr_arr"}
            /\ UNCHANGED <<arr, arr2, writes>>
    /\ scalar_index' = scalar_index + At(strides, axis)
    /\ scalar_index2' = scalar_index2 + At(strides2, axis)
    /\ indices' = Put(indices, axis, At(indices, axis) + 1)
    /\ rpc' = IF eng'.aborted THEN "aborted" ELSE "axis"
    /\ UNCHANGED <<hist, npop, lastOp, ret, shape, axis, window, min_periods,
                   strides, size_arr, current_axis, arr0, arr02, nclear, lanes,
                   strides2>>

\* after the loop along `axis`: its assert, --indices[axis], and the test
\* whether indices[current_axis] is full
RollAxisEnd ==
    /\ rpc = "axis"
    /\ At(indices, axis) = At(shape, axis)
    /\ IF At(indices, axis) > 0
       THEN LET ind == Put(indices, axis, At(indices, axis) - 1)
            IN  IF At(ind, current_axis) = At(shape, current_axis) - 1
                THEN indices' = ind /\ rpc' = "carry"
                ELSE /\ indices' = Put(ind, current_axis,
                                       At(ind, current_axis) + 1)
                     /\ rpc' = "lane"
       ELSE indices' = indices /\ rpc' = "aborted"
    /\ UNCHANGED <<engVars, arr, shape, axis, window, min_periods, strides,
                   size_arr, current_axis, scalar_index, arr0, arr02, nclear,
                   lanes, writes, oob, eng2, arr2, strides2,
                   scalar_index2>>

\* what indices[current_axis] == shape[current_axis] - 1 can evaluate to:
\* past the end of the two vectors it reads what is not theirs
CarryTest ==
    IF current_axis < Len(shape)
    THEN {At(indices, current_axis) = At(shape, current_axis) - 1}
    ELSE IF current_axis < Len(shape) + MaxOob THEN BOOLEAN
    ELSE {FALSE}

\* the accesses of the carry loop that are out of bounds
CarryOob ==
    IF current_axis < Len(shape) THEN oob
    ELSE oob \cup {"indices", "shape"}

\* one iteration of the carry loop: the test holds
RollCarryStep ==
    /\ rpc = "carry"
    /\ TRUE \in CarryTest
    /\ indices' = IF current_axis < Len(shape)
                  THEN Put(indices, current_axis, 0) ELSE indices
    /\ current_axis' = IF current_axis + 1 = axis THEN current_axis + 2
                       ELSE current_axis + 1
    /\ oob' = CarryOob
    /\ UNCHANGED <<engVars, rpc, arr, shape, axis, window, min_periods,
                   strides, size_arr, scalar_index, arr0, arr02, nclear, lanes,
                   writes, eng2, arr2, strides2, scalar_index2>>

\* the carry loop ends: the next lane, or the break
RollCarryExit ==
    /\ rpc = "carry"
    /\ FALSE \in CarryTest
    /\ IF current_axis < Len(shape)
       THEN /\ indices' = Put(indices, current_axis,
                              At(indices, current_axis) + 1)
            /\ current_axis' = FirstAxis(axis)
            /\ rpc' = "lane"
       ELSE /\ rpc' = "done"
            /\ UNCHANGED <<indices, current_axis>>
    /\ oob' = CarryOob
    /\ UNCHANGED <<engVars, arr, shape, axis, window, min_periods, strides,
                   size_arr, scalar_index, arr0, arr02, nclear, lanes, writes,
                   eng2, arr2, strides2, scalar_index2>>

NextRoll ==
    \/ RollEnter
    \/ RollLaneStart
    \/ RollAxisStep
    \/ RollAxisEnd
    \/ RollCarryStep
    \/ RollCarryExit

\* a call roll_ndarray(ptr_arr, shape_, axis_, window_, min_periods_,
\* strides_) on the engine e, which was given the values h and p calls of
\* pop() before, and the same call on the engine e2 with the buffer b2 and
\* the strides strides2_
CallFrom(h, p, e, e2, b, b2, shape_, axis_, window_, min_periods_, strides_, strides2_) ==
    /\ eng = e
    /\ hist = h
    /\ npop = p
    /\ lastOp = "construct"
    /\ ret = NaN
    /\ rpc = "call"
    /\ arr = b
    /\ shape = shape_
    /\ axis = axis_
    /\ window = window_
    /\ min_periods = min_periods_
    /\ strides = strides_
    /\ size_arr = 0
    /\ indices = <<>>
    /\ current_axis = 0
    /\ scalar_index = 0
    /\ arr0 = b
    /\ arr02 = b2
    /\ nclear = 0
    /\ lanes = <<>>
    /\ writes = [i \in 1..Len(b) |-> 0]
    /\ oob = {}
    /\ eng2 = e2
    /\ arr2 = b2
    /\ strides2 = strides2_
    /\ scalar_index2 = 0

\* the call on an engine e that was given nothing before
CallWith(e, e2, b, b2, shape_, axis_, window_, min_periods_, strides_, strides2_) ==
    CallFrom(<<>>, 0, e, e2, b, b2, shape_, axis_, window_, min_periods_,
             strides_, strides2_)

\* a call roll_ndarray(ptr_arr, shape_, axis_, window_, min_periods_) on a
\* newly constructed engine e, strides left out, and the same call on a
\* second engine like it with the buffer b2
Call(e, b, b2, shape_, axis_, window_, min_periods_) ==
    CallWith(e, e, b, b2, shape_, axis_, window_, min_periods_, <<>>, <<>>)

(***************************************************************************)
(* Calls of roll_ndarray on one lane and on a 2 x 2 buffer, by every kind  *)
(* of engine, and the call of usage_example_cpp.cpp.                       *)
(***************************************************************************)
MaxLane == 4
MaxRollVal == 2
MaxWindow == 3
MaxMinPeriods == 2

RollVals == {NaN} \cup {D(i) : i \in 1..MaxRollVal}

Buffers(n, vals) == [1..n -> vals]

RollEngines ==
    {Construct(k, s, FALSE, D(0), TRUE) : k \in Kinds, s \in BOOLEAN}
    \cup {Construct("OrderStatistics", s, FALSE, D(1), TRUE) : s \in BOOLEAN}

\* float arr[4][3] of the example
ExampleArr ==
    << D(2),     D(3),       D(1),
       D(3),     Frac(7, 2), NaN,
       NaN,      D(4),       D(2),
       D(-3),    NaN,        NaN >>

\* the result the example documents
ExampleResult ==
    << NaN,        NaN,         NaN,
       Frac(5, 2), Frac(13, 4), NaN,
       Frac(5, 2), Frac(7, 2),  Frac(3, 2),
       D(0),       Frac(15, 4), NaN >>

InitRoll ==
    \/ \E e \in RollEngines, n \in 1..MaxLane,
          w \in 0..MaxWindow, m \in 0..MaxMinPeriods :
          \E b \in Buffers(n, RollVals) : Call(e, b, b, <<n>>, 0, w, m)
    \/ \E e \in RollEngines, a \in 0..1,
          w \in 0..MaxWindow, m \in 0..MaxMinPeriods :
          \E b \in Buffers(4, RollVals) : Call(e, b, b, <<2, 2>>, a, w, m)
    \/ Call(Construct("Mean", TRUE, FALSE, D(0), TRUE),
            ExampleArr, ExampleArr, <<4, 3>>, 0, 3, 2)

SpecRoll == InitRoll /\ [][NextRoll]_vars

(***************************************************************************)
(* Two calls with the same shape, axis, window and min_periods, on buffers *)
(* that differ only in one lane.                                           *)
(***************************************************************************)
MaxPairVal == 1
MaxPairWindow == 2
MaxPairMinPeriods == 1

PairVals == {NaN} \cup {D(i) : i \in 1..MaxPairVal}

PairShapes == {<<2, 2>>, <<1, 2>>, <<2, 1>>}

\* the index along axis j of the cell at offset k of a row-major buffer
Coord(shape_, j, k) == (k \div At(DefaultStrides(shape_), j)) % At(shape_, j)

\* the cells at offsets k and l are in the same lane along axis_
SameLane(shape_, axis_, k, l) ==
    \A j \in 0..(Len(shape_) - 1) :
        j # axis_ => Coord(shape_, j, k) = Coord(shape_, j, l)

InitPair ==
    \E e \in RollEngines, sh \in PairShapes, w \in 1..MaxPairWindow,
       m \in 0..MaxPairMinPeriods :
       \E a \in 0..(Len(sh) - 1), la \in 0..(Product(sh) - 1),
          b \in Buffers(Product(sh), PairVals),
          b2 \in Buffers(Product(sh), PairVals) :
          /\ sh[a + 1] > 1 \/ w = 1
          /\ \A k \in 0..(Product(sh) - 1) :
                At(b, k) # At(b2, k) => SameLane(sh, a, k, la)
          /\ Call(e, b, b2, sh, a, w, m)

SpecPair == InitPair /\ [][NextRoll]_vars

(***************************************************************************)
(* Calls on buffers of every small shape, along every axis.                *)
(***************************************************************************)
MaxRank == 3
MaxExtent == 2

RECURSIVE Shapes(_)
Shapes(n) ==
    IF n = 0 THEN {<<>>}
    ELSE {Append(sh, x) : sh \in Shapes(n - 1), x \in 1..MaxExtent}

InitLanes ==
    \E n \in 1..MaxRank, w \in 1..MaxExtent :
       \E sh \in Shapes(n), a \in 0..(n - 1) :
          LET b == [i \in 1..Product(sh) |-> D(1)]
          IN  Call(Construct("Mean", TRUE, FALSE, D(0), TRUE),
                   b, b, sh, a, w, 1)

\* a call that has begun runs on: nothing else is scheduled
SpecLanes == InitLanes /\ [][NextRoll]_vars /\ WF_vars(NextRoll)

(***************************************************************************)
(* Calls with the strides left out, beside the same call with the          *)
(* row-major strides passed, and calls with strides of the wrong length.   *)
(***************************************************************************)
MaxStride == 2

\* strides[i] = the product of shape[k] over k > i
RowMajor(shape_) ==
    [i \in 1..Len(shape_) |-> Product(SubSeq(shape_, i + 1, Len(shape_)))]

RECURSIVE StrideSeqs(_)
StrideSeqs(n) ==
    IF n = 0 THEN {<<>>}
    ELSE {Append(st, x) : st \in StrideSeqs(n - 1), x \in 1..MaxStride}

\* strides left out, or not as many as the shape has axes
StrideArgs(shape_) ==
    {<<>>} \cup UNION {StrideSeqs(n) :
                          n \in (1..(MaxRank + 1)) \ {Len(shape_)}}

\* cell k holds the value k
CountingBuffer(n) == [i \in 1..n |-> D(i - 1)]

InitStrides ==
    \E n \in 1..MaxRank, w \in 1..MaxExtent, s \in BOOLEAN :
       \E sh \in Shapes(n), a \in 0..(n - 1) :
          \E st \in StrideArgs(sh) :
             LET e == Construct("Mean", s, FALSE, D(0), TRUE)
                 b == CountingBuffer(Product(sh))
             IN  CallWith(e, e, b, b, sh, a, w, 1, st,
                          IF st = <<>> THEN RowMajor(sh) ELSE st)

SpecStrides == InitStrides /\ [][NextRoll]_vars

(***************************************************************************)
(* What the claims speak of: the window as the caller knows it.            *)
(***************************************************************************)
\* the values pushed and not yet popped since the last clear(), oldest first
Window == SubSeq(hist, npop + 1, Len(hist))

NaNCount(w) == Cardinality({i \in DOMAIN w : isnan(w[i])})

NotNaNCount(w) == Cardinality({i \in DOMAIN w : ~isnan(w[i])})

\* the non-NaN values of w, in order
RECURSIVE NotNaNs(_)
NotNaNs(w) ==
    IF w = <<>> THEN <<>>
    ELSE IF isnan(Head(w)) THEN NotNaNs(Tail(w))
    ELSE <<Head(w)>> \o NotNaNs(Tail(w))

\* the sum of the values of w
RECURSIVE SumOf(_)
SumOf(w) == IF w = <<>> THEN D(0) ELSE Add(Head(w), SumOf(Tail(w)))

\* v is the largest / the smallest of the non-empty sequence w
IsMaxOf(v, w) ==
    /\ \E i \in DOMAIN w : w[i] = v
    /\ \A i \in DOMAIN w : ~Lt(v, w[i])

IsMinOf(v, w) ==
    /\ \E i \in DOMAIN w : w[i] = v
    /\ \A i \in DOMAIN w : ~Gt(v, w[i])

(***************************************************************************)
(* C1: for every engine, after any pushes, pops and clears, size() is      *)
(* size_nan() + size_notnan() and is the number of pushes minus the number *)
(* of pops since the last clear(); size_nan() counts the NaN values of the *)
(* window and size_notnan() its other values.                              *)
(***************************************************************************)
C1_SizeCounts ==
    /\ size(eng) = size_nan(eng) + size_notnan(eng)
    /\ size(eng) = Len(hist) - npop
    /\ size_nan(eng) = NaNCount(Window)
    /\ size_notnan(eng) = NotNaNCount(Window)

C1_Witness ==
    /\ eng.kind = "ZScore"
    /\ lastOp = "pop"
    /\ npop >= 1
    /\ size_nan(eng) >= 1
    /\ size_notnan(eng) >= 1

(***************************************************************************)
(* C2: in every reachable state compute() returns NaN when size_notnan()   *)
(* is 0 and, for an engine constructed with skip_nan = false, when         *)
(* size_nan() > 0; for Mean, Max, Min and OrderStatistics it returns NaN   *)
(* in no other state.                                                      *)
(***************************************************************************)
C2_ComputeNaN ==
    LET forced == \/ size_notnan(eng) = 0
                  \/ (~eng.skip_nan /\ size_nan(eng) > 0)
    IN  /\ forced => compute(eng) = NaN
        /\ lastOp = "compute" /\ forced => ret = NaN
        /\ eng.kind \in {"Mean", "Max", "Min", "OrderStatistics"} /\ ~forced
             => /\ ~isnan(compute(eng))
                /\ compute(eng) # Indeterminate
                /\ lastOp = "compute" => ret = compute(eng)

C2_Witness ==
    /\ lastOp = "compute"
    /\ ~eng.skip_nan
    /\ size_nan(eng) > 0
    /\ size_notnan(eng) > 0
    /\ ret = NaN

(***************************************************************************)
(* C3: compute(), and front() on a window that is not empty, leave the     *)
(* whole state of the engine as it was.                                    *)
(***************************************************************************)
C3_ReadsAreFrameFree ==
    [][/\ lastOp' = "compute" => eng' = eng
       /\ lastOp' = "front" /\ RawWindow(eng) # <<>> => eng' = eng]_vars

C3_Witness ==
    /\ lastOp = "compute"
    /\ eng.kind = "OrderStatistics"
    /\ size_notnan(eng) >= 2
    /\ ~isnan(ret)

(***************************************************************************)
(* C4: the FIFO the engine keeps is the pushed values less the first npop  *)
(* of them, NaN included, so that front() returns the earliest value not   *)
(* yet popped and the k-th pop() removes the k-th pushed value.            *)
(***************************************************************************)
C4_FifoOrder ==
    /\ RawWindow(eng) = Window
    /\ lastOp = "front" /\ ~eng.aborted => ret = hist[npop + 1]

C4_Witness ==
    /\ lastOp = "front"
    /\ ~eng.aborted
    /\ npop >= 1
    /\ Len(hist) >= npop + 2
    /\ isnan(ret)
    /\ ~isnan(hist[npop])
    /\ ~isnan(hist[npop + 2])

C6_ExtremumOfWindow ==
    /\ eng.kind = "Max" /\ NotNaNCount(Window) > 0
         => /\ eng.maximums # <<>>
            /\ IsMaxOf(Head(eng.maximums), NotNaNs(Window))
            /\ RollingMax_compute_aux(eng) = Head(eng.maximums)
    /\ eng.kind = "Min" /\ NotNaNCount(Window) > 0
         => /\ eng.minimums # <<>>
            /\ IsMinOf(Head(eng.minimums), NotNaNs(Window))
            /\ RollingMin_compute_aux(eng) = Head(eng.minimums)

C6_Witness ==
    /\ eng.kind = "Max"
    /\ lastOp = "pop"
    /\ ~eng.aborted
    /\ NotNaNCount(Window) > 0
    /\ hist[npop] = Head(eng.maximums)

(***************************************************************************)
(* C10: pop() on an empty window fails its assert before anything is       *)
(* modified, and no counter is ever decremented below zero.                *)
(***************************************************************************)
C10_PopEmptyFailsFast ==
    /\ [][lastOp' = "pop" /\ size(eng) = 0
            => eng' = [eng EXCEPT !.aborted = TRUE]]_vars
    /\ [](size_nan(eng) >= 0 /\ size_notnan(eng) >= 0)

C10_Witness ==
    /\ eng.aborted
    /\ lastOp = "pop"
    /\ npop >= 1
    /\ npop = Len(hist)


(***************************************************************************)
(* roll_ndarray against the values the buffer held before the call.        *)
(***************************************************************************)
RECURSIVE PushAll(_, _)
PushAll(e, w) == IF w = <<>> THEN e ELSE PushAll(push(e, Head(w)), Tail(w))

\* compute() of an engine like e that was constructed and given w
ComputeOver(e, w) ==
    compute(PushAll(Construct(e.kind, e.skip_nan, e.normalize, e.order,
                              e.cast_wraps), w))

\* the index along `axis` of the cell at offset k
AxisIndex(k) == (k \div At(strides, axis)) % At(shape, axis)

\* the values the lane of the cell at offset k held before the call, at the
\* last min(i + 1, window) indices ending at the cell's index i
OriginalWindow(k) ==
    LET i == AxisIndex(k)
        n == IF i + 1 < window THEN i + 1 ELSE window
    IN  [t \in 1..n |-> At(arr0, k - (n - t) * At(strides, axis))]

Written(k) == rpc \notin {"none", "call"} /\ At(writes, k) > 0

CellAsClaimed(k) ==
    At(arr, k) = IF NotNaNCount(OriginalWindow(k)) < min_periods THEN NaN
                 ELSE ComputeOver(eng, OriginalWindow(k))

\* C7: every cell roll_ndarray has written holds NaN if fewer than
\* min_periods of the lane's original values at the last min(i + 1, window)
\* indices are not NaN, and otherwise compute() of the engine over those
\* original values.
C7_RolledCells ==
    \A k \in 0..(Len(arr) - 1) : Written(k) => CellAsClaimed(k)


C7_Witness ==
    /\ rpc = "done"
    /\ eng.kind = "Rank" /\ eng.skip_nan
    /\ arr0 = <<D(1), D(2), D(1), NaN>>
    /\ window = 3
    /\ min_periods = 0
    /\ At(arr, 3) = D(0)
    /\ ComputeOver(eng, <<D(2), D(1), NaN>>) = D(1)

(***************************************************************************)
(* Lanes do not interfere.                                                 *)
(***************************************************************************)
\* the two buffers held the same values in the whole lane of the cell at k
LaneWasEqual(k) ==
    \A l \in 0..(Len(arr0) - 1) :
        SameLane(shape, axis, k, l) => At(arr0, l) = At(arr02, l)

\* C8: of two calls with the same shape, axis, window, min_periods and
\* default strides, on buffers that differ only in the cells of one lane,
\* the cells written in every other lane hold the same results.
C8_LanesIndependent ==
    \A k \in 0..(Len(arr) - 1) :
        Written(k) /\ LaneWasEqual(k) => At(arr, k) = At(arr2, k)

C8_Witness ==
    /\ rpc = "done"
    /\ shape = <<2, 2>>
    /\ arr0 # arr02
    /\ arr # arr2
    /\ \E k \in 0..3 : LaneWasEqual(k) /\ ~isnan(At(arr, k))

(***************************************************************************)
(* The walk over the lanes.                                                *)
(***************************************************************************)
LaneCount == Product(shape) \div At(shape, axis)

\* every combination of coordinates on the axes other than `axis`
AllLanes ==
    {ind \in [1..Len(shape) -> 0..(MaxExtent + 1)] :
        /\ At(ind, axis) = 0
        /\ \A j \in 1..Len(shape) : ind[j] < shape[j]}

LanesVisited == {lanes[i] : i \in 1..Len(lanes)}

WalkIsExact ==
    /\ rpc # "aborted"
    /\ nclear = Len(lanes)
    /\ \A i, j \in 1..Len(lanes) : i # j => lanes[i] # lanes[j]
    /\ LanesVisited \subseteq AllLanes
    /\ \A k \in 1..Len(writes) : writes[k] <= 1
    /\ rpc = "done" =>
          /\ nclear = LaneCount
          /\ LanesVisited = AllLanes
          /\ \A k \in 1..Len(writes) : writes[k] = 1

StridesMismatch == strides # <<>> /\ Len(strides) # Len(shape)

\* C11: a call whose strides are not empty and not as many as the shape has
\* axes is rejected: it goes from its entry to the failed assert and nowhere
\* else, the engine is not cleared or touched, and the buffer is never
\* written, so it stays as it was before the call.
C11_MismatchRejected ==
    /\ [](StridesMismatch =>
            /\ rpc \in {"call", "aborted"}
            /\ arr = arr0
            /\ nclear = 0
            /\ \A k \in 1..Len(writes) : writes[k] = 0)
    /\ [][StridesMismatch =>
            rpc' = "aborted" /\ eng' = eng /\ arr' = arr]_vars

C11_Witness ==
    /\ rpc = "aborted"
    /\ shape = <<2, 2>>
    /\ Len(strides) = 3
    /\ arr = CountingBuffer(4)


(***************************************************************************)
(* clear().                                                                *)
(***************************************************************************)
\* an engine constructed like e
NewLike(e) ==
    Construct(e.kind, e.skip_nan, e.normalize, e.order, e.cast_wraps)

\* every sum is 0 and every container is empty
AllEmpty(e) ==
    /\ \A i \in 1..Len(e.unnormalized_moments) :
          e.unnormalized_moments[i] = D(0)
    /\ \A i \in 1..Len(e.vecs_in_window) : e.vecs_in_window[i] = <<>>
    /\ e.vals_in_window = <<>>
    /\ e.maximums = <<>>
    /\ e.minimums = <<>>
    /\ e.ost = Nil

\* C12: after clear() size(), size_nan() and size_notnan() are 0, compute()
\* is NaN, every sum is 0 and every container is empty, and the engine is in
\* the state of a newly constructed engine with the same skip_nan, normalize
\* and order, so that whatever follows gives the same results.
C12_ClearResets ==
    lastOp = "clear" =>
        /\ size(eng) = 0 /\ size_nan(eng) = 0 /\ size_notnan(eng) = 0
        /\ compute(eng) = NaN
        /\ AllEmpty(eng)
        /\ eng = NewLike(eng)

C12_Witness ==
    /\ lastOp = "clear"
    /\ eng.kind = "ZScore"
    /\ Len(eng.unnormalized_moments) = 3
    /\ ~eng.aborted


(***************************************************************************)
(* RollingRank.                                                            *)
(***************************************************************************)
\* compute() is decided by the NaN policy
ForcedNaN(e) == size_notnan(e) = 0 \/ (~e.skip_nan /\ size_nan(e) > 0)

\* the number of non-NaN values of w that are <= v
CountLessOrEqual(w, v) ==
    Cardinality({i \in DOMAIN w : ~isnan(w[i]) /\ ~isnan(v) /\ Le(w[i], v)})

\* C13: for the Rank engine, when the NaN policy does not force NaN,
\* compute() is the number of non-NaN values of the window that are <= the
\* most recently pushed value, every instance counted, over size_notnan()
\* when normalize is set.
C13_RankCountsLessOrEqual ==
    eng.kind = "Rank" /\ ~ForcedNaN(eng) /\ ~eng.aborted =>
        LET c == D(CountLessOrEqual(Window, hist[Len(hist)]))
        IN  compute(eng) = IF eng.normalize
                           THEN Div(c, D(size_notnan(eng))) ELSE c

C13_Witness ==
    /\ eng.kind = "Rank"
    /\ ~eng.normalize
    /\ lastOp = "compute"
    /\ Window = <<D(1)>>
    /\ ret = D(0)


(***************************************************************************)
(* RollingOrderStatistics.                                                 *)
(***************************************************************************)
\* w with v put before its first element that is not below v
RECURSIVE InsertSorted(_, _)
InsertSorted(w, v) ==
    IF w = <<>> THEN <<v>>
    ELSE IF Lt(Head(w), v) THEN <<Head(w)>> \o InsertSorted(Tail(w), v)
    ELSE <<v>> \o w

\* the non-NaN values of w in ascending order
RECURSIVE SortedNotNaN(_)
SortedNotNaN(w) ==
    IF w = <<>> THEN <<>>
    ELSE IF isnan(Head(w)) THEN SortedNotNaN(Tail(w))
    ELSE InsertSorted(SortedNotNaN(Tail(w)), Head(w))

\* x with its fraction cut off
Trunc(x) ==
    IF x[1] >= 0 THEN x[1] \div x[2] ELSE -((-x[1]) \div x[2])

Clamp(r, lo, hi) == IF r < lo THEN lo ELSE IF r > hi THEN hi ELSE r

\* the rank the claim resolves: order, or order * size_notnan() cut off,
\* clamped into 0 .. size_notnan() - 1
ResolvedRank(e) ==
    LET n == size_notnan(e)
        r == IF e.normalize THEN Trunc(Mul(e.order, D(n))) ELSE Trunc(e.order)
    IN  Clamp(r, 0, n - 1)

\* C14: for the OrderStatistics engine with a non-NaN value in the window,
\* compute() is the value at position r, counted from 0, of the non-NaN
\* values of the window in ascending order, where r is order (or order *
\* size_notnan() cut off to an integer when normalize is set) clamped into
\* 0 .. size_notnan() - 1, whether order is below 0, inside or above.
C14_QuantileClamped ==
    eng.kind = "OrderStatistics" /\ ~ForcedNaN(eng) /\ ~eng.aborted =>
        compute(eng) = SortedNotNaN(Window)[ResolvedRank(eng) + 1]

C14_Witness ==
    /\ eng.kind = "OrderStatistics"
    /\ eng.order = D(-1)
    /\ eng.cast_wraps
    /\ ~eng.normalize
    /\ lastOp = "compute"
    /\ Window = <<D(0), D(1)>>
    /\ ret = D(1)


(***************************************************************************)
(* The quantile of order 0 and of order size_notnan() - 1.                 *)
(***************************************************************************)
\* compute() of an OrderStatistics engine in the state of e whose order is
\* order_ and whose normalize is normalize_: push, pop and clear read
\* neither member, so the engines differ in nothing else
QuantileOf(e, order_, normalize_) ==
    compute([e EXCEPT !.order = order_, !.normalize = normalize_])

\* C15: after the same pushes, pops and clears, compute() of the
\* OrderStatistics engine of order 0 equals compute() of the Min engine, and
\* compute() of the OrderStatistics engine with normalize = false and
\* order = size_notnan() - 1 equals compute() of the Max engine.
C15_QuantileIsMinOrMax ==
    ~eng.aborted =>
        /\ eng2.kind = "Min" =>
              QuantileOf(eng, D(0), eng.normalize) = compute(eng2)
        /\ eng2.kind = "Max" =>
              QuantileOf(eng, D(size_notnan(eng) - 1), FALSE) = compute(eng2)

C15_Witness ==
    /\ eng2.kind = "Max"
    /\ lastOp = "pop"
    /\ Window = <<D(1), D(0)>>
    /\ compute(eng2) = D(1)
    /\ QuantileOf(eng, D(1), FALSE) = D(1)
    /\ QuantileOf(eng, D(0), FALSE) = D(0)


(***************************************************************************)
(* RollingZScore.                                                          *)
(***************************************************************************)
\* the sum of the squares of the values of w
RECURSIVE SumOfSquares(_)
SumOfSquares(w) ==
    IF w = <<>> THEN D(0)
    ELSE Add(Mul(Head(w), Head(w)), SumOfSquares(Tail(w)))

\* the mean and the variance of the non-NaN values of w
MeanOf(w) == Div(SumOf(NotNaNs(w)), D(NotNaNCount(w)))

VarianceOf(w) ==
    Sub(Div(SumOfSquares(NotNaNs(w)), D(NotNaNCount(w))),
        Mul(MeanOf(w), MeanOf(w)))

\* (v - mean) / sqrt(variance) over the non-NaN values of w
ZScoreOf(v, w) ==
    IF isnan(v) THEN NaN
    ELSE PowQuot(Sub(v, MeanOf(w)), VarianceOf(w), 1)

\* C16: for the ZScore engine, whenever compute() is not decided by the NaN
\* policy, the current value it uses is the most recently pushed value v,
\* NaN included and however many pops followed that push, and when compute()
\* is not NaN it is (v - mean) / sqrt(variance) over the non-NaN values of
\* the window.
C16_ZScoreOfNewest ==
    eng.kind = "ZScore" /\ ~ForcedNaN(eng) /\ ~eng.aborted =>
        LET v == hist[Len(hist)]
        IN  /\ eng.unnormalized_moments[2] = v
            /\ ~isnan(compute(eng)) => compute(eng) = ZScoreOf(v, Window)

C16_Witness ==
    /\ eng.kind = "ZScore"
    /\ eng.skip_nan
    /\ lastOp = "compute"
    /\ Window = <<D(0), D(1), NaN>>
    /\ eng.unnormalized_moments[2] = D(0)
    /\ ret = <<-1, 2, 1, 4, 1>>


(***************************************************************************)
(* The power sums of Variance, Skewness and ZScore.                        *)
(***************************************************************************)
\* the sum of the cubes of the values of w
RECURSIVE SumOfCubes(_)
SumOfCubes(w) ==
    IF w = <<>> THEN D(0)
    ELSE Add(Mul(Mul(Head(w), Head(w)), Head(w)), SumOfCubes(Tail(w)))

AllEqual(w) == \A i, j \in DOMAIN w : w[i] = w[j]

\* C18: for the Skewness and ZScore engines, whenever the non-NaN values of
\* the window are all equal (a single one included), compute() is NaN: the
\* division by variance^1.5 or sqrt(variance) is not performed.
C18_ConstantWindowIsNaN ==
    /\ eng.kind \in {"Skewness", "ZScore"}
    /\ ~eng.aborted
    /\ AllEqual(NotNaNs(Window))
    => /\ compute(eng) = NaN
       /\ size_notnan(eng) > 0 =>
              BelowEPSILON(RollingVariance_compute_aux(
                  [eng EXCEPT !.unnormalized_moments =
                      IF eng.kind = "ZScore" THEN <<@[1], @[3]>> ELSE @]))

C18_Witness ==
    /\ eng.kind = "Skewness"
    /\ lastOp = "compute"
    /\ Window = <<Frac(5, 4), Frac(5, 4), Frac(5, 4)>>
    /\ eng.unnormalized_moments[2] = Frac(19, 4)
    /\ ~isnan(ret)


MaxUsed == 2

\* the sequences of at most n values of RollVals
RECURSIVE UsedSeqs(_)
UsedSeqs(n) ==
    IF n = 0 THEN {<<>>}
    ELSE UsedSeqs(n - 1)
         \cup {Append(h, v) : h \in UsedSeqs(n - 1), v \in RollVals}

\* the engine e after push() of each value of h and p calls of pop()
RECURSIVE PopTimes(_, _)
PopTimes(e, p) == IF p = 0 THEN e ELSE PopTimes(pop(e), p - 1)

Used(e, h, p) == PopTimes(PushAll(e, h), p)

\* one lane of two cells, two lanes of one cell
UsedShapes == {<<2>>, <<1, 2>>, <<2, 1>>}

InitUsed ==
    \E e \in RollEngines, sh \in UsedShapes, w \in 1..MaxPairWindow,
       m \in 0..MaxPairMinPeriods, h \in UsedSeqs(MaxUsed) :
       \E a \in 0..(Len(sh) - 1), p \in 0..Len(h),
          b \in Buffers(Product(sh), PairVals) :
          CallFrom(h, p, Used(e, h, p), clear(Used(e, h, p)), b, b, sh, a,
                   w, m, <<>>, <<>>)

SpecUsed == InitUsed /\ [][NextRoll]_vars

\* C20: a call of roll_ndarray on an engine that was pushed to and popped
\* from before, its window empty or not, NaN in it or not, leaves the
\* buffer the same call leaves with that engine cleared first: from the
\* first lane on the two engines are in the same state.
C20_PriorStateIgnored ==
    /\ arr = arr2
    /\ nclear >= 1 => eng = eng2

C20_Witness ==
    /\ rpc = "done"
    /\ Len(hist) - npop = 2
    /\ \E i \in (npop + 1)..Len(hist) : isnan(hist[i])
    /\ \E k \in 0..(Len(arr) - 1) :
          ~isnan(At(arr, k)) /\ At(arr, k) # At(arr0, k)
    /\ arr = arr2


(***************************************************************************)
(* The public member `order` of RollingOrderStatistics, assigned between   *)
(* the calls.                                                              *)
(***************************************************************************)
InitOrder ==
    /\ eng \in {e \in Engines : e.kind = "OrderStatistics"}
    /\ hist = <<>>
    /\ npop = 0
    /\ lastOp = "construct"
    /\ ret = NaN
    /\ NoCall

\* rs.order = order_
SetOrder ==
    /\ ~eng.aborted
    /\ \E order_ \in Orders : eng' = [eng EXCEPT !.order = order_]
    /\ lastOp' = "order"
    /\ UNCHANGED <<hist, npop, ret, rollVars>>

NextOrder == Push \/ Pop \/ Clear \/ Compute \/ SetOrder

SpecOrder == InitOrder /\ [][NextOrder]_vars

\* C21: for the OrderStatistics engine, an assignment to `order` changes
\* nothing of the engine but `order`, compute() is at every moment what an
\* engine constructed with the order of that moment returns for the window,
\* and push, pop and clear leave `order` as it is.
C21_OrderAssignable ==
    /\ [](~eng.aborted /\ ~ForcedNaN(eng) =>
              compute(eng) = ComputeOver(eng, Window))
    /\ [][lastOp' = "order" =>
              /\ [eng' EXCEPT !.order = eng.order] = eng
              /\ Window' = Window]_vars
    /\ [][lastOp' \in {"push", "pop", "clear"} =>
              eng'.order = eng.order]_vars

C21_Witness ==
    /\ lastOp = "order"
    /\ npop = 1
    /\ Window = <<D(0), D(1)>>
    /\ ret = D(0)
    /\ eng.order = D(1)
    /\ compute(eng) = D(1)


(***************************************************************************)
(* The tree of RollingRank and RollingOrderStatistics as a multiset.       *)
(***************************************************************************)
\* the number of instances of v in w
Instances(w, v) == Cardinality({i \in DOMAIN w : w[i] = v})

\* C22: for the Rank and OrderStatistics engines, after any pushes, pops and
\* clears the tree holds the non-NaN values of the window, each as often as
\* the window holds it, and as many values as size_notnan() says; a push of
\* a value adds one instance of it, a pop of a value removes one instance
\* of it, and a push or a pop of NaN leaves the tree as it is.
C22_TreeIsMultiset ==
    /\ [](eng.kind \in {"Rank", "OrderStatistics"} /\ ~eng.aborted =>
              /\ InOrder(eng.ost) = SortedNotNaN(Window)
              /\ TreeSize(eng.ost) = size_notnan(eng))
    /\ [][eng.kind \in {"Rank", "OrderStatistics"} /\ ~eng'.aborted =>
              /\ lastOp' = "push" =>
                    LET v == hist'[Len(hist')]
                    IN  IF isnan(v) THEN eng'.ost = eng.ost
                        ELSE Instances(InOrder(eng'.ost), v)
                                 = Instances(InOrder(eng.ost), v) + 1
              /\ lastOp' = "pop" =>
                    LET v == Head(Window)
                    IN  IF isnan(v) THEN eng'.ost = eng.ost
                        ELSE Instances(InOrder(eng'.ost), v)
                                 = Instances(InOrder(eng.ost), v) - 1]_vars

C22_Witness ==
    /\ eng.kind = "OrderStatistics"
    /\ lastOp = "pop"
    /\ hist = <<D(1), D(1), D(1)>>
    /\ npop = 1
    /\ InOrder(eng.ost) = <<D(1), D(1)>>


(***************************************************************************)
(* The candidate deques of RollingMax and RollingMin.                      *)
(***************************************************************************)
\* a is b with some of its elements left out
RECURSIVE IsSubsequence(_, _)
IsSubsequence(a, b) ==
    IF a = <<>> THEN TRUE
    ELSE IF b = <<>> THEN FALSE
    ELSE IF Head(a) = Head(b) THEN IsSubsequence(Tail(a), Tail(b))
    ELSE IsSubsequence(a, Tail(b))

\* the deque of candidates of a Max or a Min engine
Candidates(e) == IF e.kind = "Max" THEN e.maximums ELSE e.minimums

\* C23: for the Max (Min) engine the deque of candidates is non-increasing
\* (non-decreasing) from head to tail and is a subsequence, in the order of
\* arrival, of the non-NaN values of the raw FIFO; a push of NaN changes the
\* raw FIFO and the NaN counter and nothing else.
C23_CandidatesMonotone ==
    /\ [](eng.kind \in {"Max", "Min"} /\ ~eng.aborted =>
              LET q == Candidates(eng)
              IN  /\ eng.vals_in_window = Window
                  /\ IsSubsequence(q, NotNaNs(eng.vals_in_window))
                  /\ \A i \in 1..(Len(q) - 1) :
                        IF eng.kind = "Max" THEN Le(q[i + 1], q[i])
                        ELSE Le(q[i], q[i + 1]))
    /\ [][/\ eng.kind \in {"Max", "Min"}
          /\ lastOp' = "push"
          /\ isnan(hist'[Len(hist')])
          => eng' = [eng EXCEPT !.vals_in_window = Append(@, NaN),
                                !.num_vals_nan = @ + 1]]_vars

C23_Witness ==
    /\ eng.kind = "Max"
    /\ lastOp = "push"
    /\ Window = <<D(1), D(0), NaN>>
    /\ eng.maximums = <<D(1), D(0)>>
    /\ eng.num_vals_nan = 1


(***************************************************************************)
(* The head of the candidate deque is there whenever it is read.           *)
(***************************************************************************)
\* C24: for the Max and Min engines the deque of candidates is empty
\* exactly when size_notnan() is 0, so that compute_aux, which compute()
\* calls only past the NaN policy, and pop() of a non-NaN value read the
\* head of a deque that is not empty.
C24_CandidatesNotEmpty ==
    /\ [](eng.kind \in {"Max", "Min"} /\ ~eng.aborted =>
              /\ Candidates(eng) = <<>> <=> size_notnan(eng) = 0
              /\ compute(eng) # Indeterminate)
    /\ [][eng.kind \in {"Max", "Min"} /\ ~eng'.aborted =>
              /\ lastOp' = "compute" /\ ~ForcedNaN(eng) =>
                    Candidates(eng) # <<>> /\ ret' = Head(Candidates(eng))
              /\ lastOp' = "pop" /\ ~isnan(Head(Window)) =>
                    Candidates(eng) # <<>>]_vars

C24_Witness ==
    /\ eng.kind = "Min"
    /\ lastOp = "pop"
    /\ hist = <<D(1), D(0), NaN>>
    /\ npop = 2
    /\ eng.minimums = <<>>
    /\ size_nan(eng) = 1


(***************************************************************************)
(* The accesses of the lane odometer.                                      *)
(***************************************************************************)
\* C25: during roll_ndarray, for every shape of rank >= 1 with extents
\* >= 1 and every axis, the odometer reads and writes indices[k] and
\* shape[k] only for k < rank, the test of the carry loop after the last
\* lane included.
C25_OdometerInBounds ==
    /\ rpc \in {"axis", "carry"} => current_axis < Len(shape)
    /\ "indices" \notin oob
    /\ "shape" \notin oob

C25_Witness ==
    /\ rpc = "carry"
    /\ shape = <<2, 2>>
    /\ axis = 1
    /\ Len(lanes) = 2
    /\ current_axis = 2


(***************************************************************************)
(* Calls with strides of the shape's rank that are not the row-major ones: *)
(* views of a larger buffer, as the binding passes them for a sliced or a  *)
(* transposed array.                                                       *)
(***************************************************************************)
\* the coordinates of the cells of an array of shape shape_
RECURSIVE Coords(_)
Coords(shape_) ==
    IF shape_ = <<>> THEN {<<>>}
    ELSE {<<i>> \o c : i \in 0..(Head(shape_) - 1), c \in Coords(Tail(shape_))}

\* distinct coordinates have distinct offsets
Injective(shape_, strides_) ==
    \A c1, c2 \in Coords(shape_) :
        c1 # c2 => ScalarIndexFrom(c1, strides_, 0)
                       # ScalarIndexFrom(c2, strides_, 0)

\* the offset of the last cell
LastOffset(shape_, strides_) ==
    ScalarIndexFrom([i \in 1..Len(shape_) |-> shape_[i] - 1], strides_, 0)

InitViews ==
    \E n \in 1..MaxRank, w \in 1..MaxExtent, s \in BOOLEAN :
       \E sh \in Shapes(n), a \in 0..(n - 1), st \in StrideSeqs(n) :
          LET e == Construct("Mean", s, FALSE, D(0), TRUE)
              b == CountingBuffer(LastOffset(sh, st) + 1)
          IN  /\ Injective(sh, st)
              /\ CallWith(e, e, b, b, sh, a, w, 1, st, st)

SpecViews == InitViews /\ [][NextRoll]_vars

\* C26: with strides of the shape's rank under which distinct coordinates
\* have distinct offsets, the assertion scalar_index < prod(shape) holds at
\* the start of every lane, and the call goes through all the lanes without
\* a failed precondition.
C26_ViewsPassLaneAssert ==
    /\ rpc # "aborted"
    /\ rpc = "axis" /\ At(indices, axis) = 0 => scalar_index < size_arr
    /\ rpc = "done" => Len(lanes) = LaneCount

C26_Witness ==
    /\ rpc = "aborted"
    /\ shape = <<2, 1>>
    /\ strides = <<2, 1>>
    /\ axis = 1
    /\ Len(arr) = 3
    /\ Len(lanes) = 2
    /\ scalar_index = 2
    /\ size_arr = 2


(***************************************************************************)
(* The range of the rank.                                                  *)
(***************************************************************************)
\* C27: for the Rank engine with normalize = false, a compute() that is not
\* NaN lies in 1 .. size_notnan(), also in skip-NaN mode when the value
\* pushed last is NaN and non-NaN values are in the window.
C27_RankInRange ==
    /\ eng.kind = "Rank"
    /\ ~eng.normalize
    /\ ~eng.aborted
    /\ ~isnan(compute(eng))
    => /\ Le(D(1), compute(eng))
       /\ Le(compute(eng), D(size_notnan(eng)))

C27_Witness ==
    /\ eng.kind = "Rank"
    /\ ~eng.normalize
    /\ eng.skip_nan
    /\ lastOp = "compute"
    /\ Window = <<D(0), D(1), NaN>>
    /\ ret = D(0)


(***************************************************************************)
(* An engine whose window was emptied by pop(), beside the same engine     *)
(* after clear(), given the same pushes and pops from there on.            *)
(***************************************************************************)
\* NaN, a value whose square, cube and sums are values of D, and one whose
\* sum of squares is rounded
DrainVals == {NaN, D(1), Frac(5, 4)}

\* the sequences of 1 to n values of vals
RECURSIVE SeqsOver(_, _)
SeqsOver(vals, n) ==
    IF n = 0 THEN {}
    ELSE {<<v>> : v \in vals}
         \cup {Append(h, v) : h \in SeqsOver(vals, n - 1), v \in vals}

InitDrained ==
    /\ \E e \in RollEngines, h \in SeqsOver(DrainVals, MaxPush) :
          /\ eng = Used(e, h, Len(h))
          /\ eng2 = clear(Used(e, h, Len(h)))
    /\ hist = <<>>
    /\ npop = 0
    /\ lastOp = "pop"
    /\ ret = NaN
    /\ Idle

NextDrained == TwinPush \/ TwinPop

SpecDrained == InitDrained /\ [][NextDrained]_vars

\* C28: an engine of any kind whose size() pops have brought back to 0
\* gives, for every following sequence of push, pop, compute and front,
\* what the same engine gives after clear().
C28_DrainedIsCleared ==
    /\ eng.aborted = eng2.aborted
    /\ ~eng.aborted =>
          /\ size_nan(eng) = size_nan(eng2)
          /\ size_notnan(eng) = size_notnan(eng2)
          /\ compute(eng) = compute(eng2)
          /\ size(eng) > 0 => front(eng) = front(eng2)

C28_Witness ==
    /\ eng.kind = "Variance"
    /\ lastOp = "push"
    /\ hist = <<D(1)>>
    /\ size(eng) = 1
    /\ eng.unnormalized_moments = <<D(1), Frac(17, 16)>>
    /\ compute(eng) = Frac(1, 16)
    /\ compute(eng2) = D(0)

====
